---- MODULE Spec2Model ----
(***************************************************************************)
(* Credential resolution and caching of the SSH MCP server                 *)
(* (src/src/ssh_mcp_server/credentials.py, src/src/ssh_mcp_server/server.py)*)
(*                                                                         *)
(* Strings are sequences of one-character strings, so that str.strip(),    *)
(* str.split('.') and '.'.join() are computed and not assumed.             *)
(* Python's None is the empty tuple; a credential is a 2-tuple.            *)
(***************************************************************************)
EXTENDS Integers, Sequences, FiniteSets, TLC

VARIABLES darwin, providers, keychain, memory, last, nops

vars == <<darwin, providers, keychain, memory, last, nops>>

-----------------------------------------------------------------------------
(* Bounds *)

\* longest hostname of the domain-resolver specification
MaxHostLen == 4

\* number of operations on the manager in one session
MaxOps == 3

\* number of tool invocations in one session
MaxToolOps == 2

-----------------------------------------------------------------------------
(* Strings *)

None == <<>>

Range(s) == {s[i] : i \in 1..Len(s)}

RECURSIVE LStrip(_)
LStrip(s) == IF s # <<>> /\ Head(s) = " " THEN LStrip(Tail(s)) ELSE s

RECURSIVE RStrip(_)
RStrip(s) ==
    IF s # <<>> /\ s[Len(s)] = " " THEN RStrip(SubSeq(s, 1, Len(s) - 1)) ELSE s

\* str.strip()
Strip(s) == RStrip(LStrip(s))

\* str.split(sep): the labels between the separators, empty labels kept
RECURSIVE Split(_, _)
Split(s, sep) ==
    IF \A i \in 1..Len(s) : s[i] # sep
    THEN <<s>>
    ELSE LET k == CHOOSE i \in 1..Len(s) :
                      s[i] = sep /\ \A j \in 1..(i - 1) : s[j] # sep
         IN  <<SubSeq(s, 1, k - 1)>> \o Split(SubSeq(s, k + 1, Len(s)), sep)

\* sep.join(parts)
RECURSIVE Join(_, _)
Join(parts, sep) ==
    IF parts = <<>> THEN <<>>
    ELSE IF Len(parts) = 1 THEN parts[1]
    ELSE parts[1] \o <<sep>> \o Join(Tail(parts), sep)

\* parts[-2:]
LastTwo(parts) ==
    IF Len(parts) <= 2 THEN parts ELSE SubSeq(parts, Len(parts) - 1, Len(parts))

\* parts[:2], the slice taken from the wrong end
FirstTwo(parts) == IF Len(parts) <= 2 THEN parts ELSE SubSeq(parts, 1, 2)

get_domain_from_hostname_first(hostname) ==
    IF "." \in Range(hostname)
    THEN LET parts == Split(hostname, ".")
         IN  IF Len(parts) >= 2 THEN Join(FirstTwo(parts), ".") ELSE hostname
    ELSE hostname

\* CredentialManager.get_domain_from_hostname
get_domain_from_hostname(hostname) ==
    IF "." \in Range(hostname)
    THEN LET parts == Split(hostname, ".")
         IN  IF Len(parts) >= 2 THEN Join(LastTwo(parts), ".") ELSE hostname
    ELSE hostname

-----------------------------------------------------------------------------
(* Values of the session *)

\* credential keys handed to the manager's operations
Domains == {<<"e", ".", "c">>, <<"h">>}

\* names handed to the tools
Hostnames == {<<"w", ".", "e", ".", "c">>, <<"e", ".", "c">>, <<"h">>}

Users == {<<"u">>, <<"v">>}

Secrets == {<<"p">>, <<"q", " ">>}

\* what a subprocess.run of the security tool does: exit code 0, a non-zero
\* exit code, or an exception (TimeoutExpired, OSError)
Outcomes == {"ok", "fail", "raise"}

\* the subprocess.run calls that are given timeout=30: the two lookups, and
\* neither the delete nor the add
HasTimeout(call) == call \in {"find1", "find2"}

\* what the caller of subprocess.run sees; a child that never exits
\* ("stall") ends in TimeoutExpired where a timeout is given and keeps the
\* caller waiting for ever ("hang") where none is
Run(call, o) ==
    IF o = "stall" THEN (IF HasTimeout(call) THEN "raise" ELSE "hang") ELSE o

Text(s) == [kind |-> "text", text |-> s]
EndOfInput == [kind |-> "EOF", text |-> <<>>]
Interrupt == [kind |-> "INT", text |-> <<>>]
IOFault == [kind |-> "ERR", text |-> <<>>]

\* a prompt that was not shown
NoInput == [kind |-> "none", text |-> <<>>]

\* what the operator gave at a prompt of the call, when it was shown
Shown(prompts, which, input) ==
    IF which \in {prompts[i] : i \in 1..Len(prompts)} THEN input ELSE NoInput

\* what input("Username: ") yields: a line, EOFError, KeyboardInterrupt or
\* another error of the terminal
UsernameInputs ==
    {Text(<<" ">>), Text(<<"u", " ">>), EndOfInput, Interrupt, IOFault}

\* what getpass.getpass("Password: ") yields
SecretInputs ==
    {Text(<<>>), Text(<<"p">>), Text(<<"q", " ">>),
     EndOfInput, Interrupt, IOFault}

\* exceptions caught by "except Exception"
IsException(x) == x \in {"EOFError", "OSError"}

NoItem == [svc |-> <<>>, acct |-> <<>>, pw |-> <<>>]

-----------------------------------------------------------------------------
(* MacOSKeychainProvider *)

\* service = f"ssh-mcp-{domain}"
Service(domain) == <<"s", "s", "h", "-", "m", "c", "p", "-">> \o domain

\* the items "security find-generic-password -s service" matches
KeychainFind(kc, service) == {it \in kc : it.svc = service}

\* the items "security find-generic-password -s service -a account" matches
KeychainFindAccount(kc, service, account) ==
    {it \in kc : it.svc = service /\ it.acct = account}

\* MacOSKeychainProvider.get_credentials; e.pick is the item the keychain
\* search returns first. The output of the first lookup is taken as the
\* account name of that item, as the comment of the code has it, and the
\* output of the second as its secret; both are stripped.
MacOSKeychain_get_credentials(kc, domain, e) ==
    LET service == Service(domain)
        find1 == Run("find1", e.find1)
        find2 == Run("find2", e.find2)
    IN  IF find1 = "raise" THEN None
        ELSE IF find1 # "ok" \/ e.pick \notin KeychainFind(kc, service)
        THEN None
        ELSE LET username == Strip(e.pick.acct)
                 hit == KeychainFindAccount(kc, service, username)
             IN  IF find2 = "raise" THEN None
                 ELSE IF find2 # "ok" \/ hit = {} THEN None
                 ELSE <<username, Strip((CHOOSE it \in hit : TRUE).pw)>>

\* "security add-generic-password -s service -a account -w secret -U"
KeychainAdd(kc, service, username, password) ==
    {it \in kc : ~(it.svc = service /\ it.acct = username)}
        \cup {[svc |-> service, acct |-> username, pw |-> password]}

\* MacOSKeychainProvider.store_credentials
MacOSKeychain_store_credentials(kc, domain, username, password, e) ==
    LET service == Service(domain)
        del == Run("del", e.del)
        add == Run("add", e.add)
    IN  IF del = "hang" THEN [ok |-> FALSE, kc |-> kc, hung |-> TRUE]
        ELSE IF del = "raise" THEN [ok |-> FALSE, kc |-> kc, hung |-> FALSE]
        ELSE LET kc1 == IF del = "ok" /\ e.pick \in KeychainFind(kc, service)
                        THEN kc \ {e.pick} ELSE kc
             IN  IF add = "hang"
                 THEN [ok |-> FALSE, kc |-> kc1, hung |-> TRUE]
                 ELSE IF add = "ok"
                 THEN [ok |-> TRUE,
                       kc |-> KeychainAdd(kc1, service, username, password),
                       hung |-> FALSE]
                 ELSE [ok |-> FALSE, kc |-> kc1, hung |-> FALSE]

\* MacOSKeychainProvider.test_credentials_available
MacOSKeychain_test_credentials_available(kc, domain, e) ==
    MacOSKeychain_get_credentials(kc, domain, e) # None

-----------------------------------------------------------------------------
(* MemoryProvider *)

\* a MemoryProvider.get_credentials that never finds an entry
Memory_get_credentials_miss(mem, domain) == None

\* MemoryProvider.get_credentials: dict.get
Memory_get_credentials(mem, domain) ==
    IF domain \in DOMAIN mem THEN mem[domain] ELSE None

\* MemoryProvider.store_credentials
Memory_store_credentials(mem, domain, username, password) ==
    [k \in (DOMAIN mem) \cup {domain} |->
        IF k = domain THEN <<username, password>> ELSE mem[k]]

\* MemoryProvider.test_credentials_available
Memory_test_credentials_available(mem, domain) == domain \in DOMAIN mem

-----------------------------------------------------------------------------
(* InteractiveProvider *)

\* an InteractiveProvider.get_credentials without "if not username"
Interactive_get_credentials_noempty(e) ==
    IF e.uin.kind \in {"EOF", "INT"}
    THEN [cred |-> None, exc |-> "none", prompts |-> <<"username">>]
    ELSE IF e.uin.kind = "ERR"
    THEN [cred |-> None, exc |-> "OSError", prompts |-> <<"username">>]
    ELSE IF e.pin.kind \in {"EOF", "INT"} \/ e.pin.text = <<>>
    THEN [cred |-> None, exc |-> "none", prompts |-> <<"username", "secret">>]
    ELSE IF e.pin.kind = "ERR"
    THEN [cred |-> None, exc |-> "OSError",
          prompts |-> <<"username", "secret">>]
    ELSE [cred |-> <<Strip(e.uin.text), e.pin.text>>, exc |-> "none",
          prompts |-> <<"username", "secret">>]

\* InteractiveProvider.get_credentials
Interactive_get_credentials(e) ==
    IF e.uin.kind \in {"EOF", "INT"}
    THEN [cred |-> None, exc |-> "none", prompts |-> <<"username">>]
    ELSE IF e.uin.kind = "ERR"
    THEN [cred |-> None, exc |-> "OSError", prompts |-> <<"username">>]
    ELSE LET username == Strip(e.uin.text)
         IN  IF username = <<>>
             THEN [cred |-> None, exc |-> "none", prompts |-> <<"username">>]
             ELSE IF e.pin.kind \in {"EOF", "INT"}
             THEN [cred |-> None, exc |-> "none",
                   prompts |-> <<"username", "secret">>]
             ELSE IF e.pin.kind = "ERR"
             THEN [cred |-> None, exc |-> "OSError",
                   prompts |-> <<"username", "secret">>]
             ELSE IF e.pin.text = <<>>
             THEN [cred |-> None, exc |-> "none",
                   prompts |-> <<"username", "secret">>]
             ELSE [cred |-> <<username, e.pin.text>>, exc |-> "none",
                   prompts |-> <<"username", "secret">>]

\* InteractiveProvider.store_credentials
Interactive_store_credentials == FALSE

\* a prompt that does not count itself as a source of credentials
Interactive_test_credentials_available_never == FALSE

\* InteractiveProvider.test_credentials_available
Interactive_test_credentials_available == TRUE

-----------------------------------------------------------------------------
(* CredentialManager *)

\* a construction that adds the keychain on every platform
ManagerProviders_always(isDarwin) ==
    <<"keychain", "memory", "interactive">>

\* CredentialManager.__init__: the keychain on Darwin only, then the session
\* cache, then the prompt
ManagerProviders(isDarwin) ==
    (IF isDarwin THEN <<"keychain">> ELSE <<>>) \o <<"memory", "interactive">>

\* a loop body that asks the operator a second time after an absent answer
ProviderGet_retry(p, kc, mem, domain, e) ==
    IF p = "keychain"
    THEN [cred |-> MacOSKeychain_get_credentials(kc, domain, e),
          exc |-> "none", prompts |-> <<>>]
    ELSE IF p = "memory"
    THEN [cred |-> Memory_get_credentials(mem, domain),
          exc |-> "none", prompts |-> <<>>]
    ELSE LET r == Interactive_get_credentials(e)
         IN  IF r.cred = None THEN [r EXCEPT !.prompts = @ \o @] ELSE r

\* provider.get_credentials(domain), by variant
ProviderGet(p, kc, mem, domain, e) ==
    IF p = "keychain"
    THEN [cred |-> MacOSKeychain_get_credentials(kc, domain, e),
          exc |-> "none", prompts |-> <<>>]
    ELSE IF p = "memory"
    THEN [cred |-> Memory_get_credentials(mem, domain),
          exc |-> "none", prompts |-> <<>>]
    ELSE Interactive_get_credentials(e)

\* a get_credentials without the try/except around the provider call
GetCatches_nothing(exc) == FALSE

\* get_credentials: "except Exception: continue"
GetCatches(exc) == IsException(exc)

\* the loop of CredentialManager.get_credentials from provider i on
RECURSIVE ResolveFrom(_, _, _, _, _, _)
ResolveFrom(i, provs, kc, mem, domain, e) ==
    IF i > Len(provs)
    THEN [cred |-> None, source |-> "none", resolved |-> <<>>,
          faults |-> <<>>, prompts |-> <<>>, exc |-> "none"]
    ELSE LET r == ProviderGet(provs[i], kc, mem, domain, e)
             rest == ResolveFrom(i + 1, provs, kc, mem, domain, e)
         IN  IF r.exc # "none" /\ ~GetCatches(r.exc)
             THEN [cred |-> None, source |-> "none", resolved |-> <<provs[i]>>,
                   faults |-> <<provs[i]>>, prompts |-> r.prompts,
                   exc |-> r.exc]
             ELSE IF r.exc = "none" /\ r.cred # None
             THEN [cred |-> r.cred, source |-> provs[i],
                   resolved |-> <<provs[i]>>, faults |-> <<>>,
                   prompts |-> r.prompts, exc |-> "none"]
             ELSE [rest EXCEPT !.resolved = <<provs[i]>> \o @,
                               !.faults = (IF r.exc # "none"
                                           THEN <<provs[i]>> ELSE <<>>) \o @,
                               !.prompts = r.prompts \o @]

\* a get_credentials that returns what it found without caching it
CacheInMemory_skip(mem, source, domain, cred) == mem

\* get_credentials: "if provider != self.memory_provider:
\*     self.memory_provider.store_credentials(domain, *credentials)"
CacheInMemory(mem, source, domain, cred) ==
    IF cred # None /\ source # "memory"
    THEN Memory_store_credentials(mem, domain, cred[1], cred[2])
    ELSE mem

\* a get_credentials that also saves what the operator typed in the keychain
KeychainAfterGet_persist(kc, source, domain, cred) ==
    IF cred # None /\ source = "interactive"
    THEN KeychainAdd(kc, Service(domain), cred[1], cred[2])
    ELSE kc

\* get_credentials calls store_credentials on the memory provider only: the
\* keychain is as it was
KeychainAfterGet(kc, source, domain, cred) == kc

\* CredentialManager.get_credentials
CredentialManager_get_credentials(provs, kc, mem, domain, e) ==
    LET r == ResolveFrom(1, provs, kc, mem, domain, e)
    IN  [cred |-> r.cred, source |-> r.source, resolved |-> r.resolved,
         faults |-> r.faults, prompts |-> r.prompts, exc |-> r.exc,
         mem |-> CacheInMemory(mem, r.source, domain, r.cred),
         kc |-> KeychainAfterGet(kc, r.source, domain, r.cred)]

\* provider.store_credentials(domain, username, password), by variant
ProviderStore(p, kc, mem, domain, username, password, e) ==
    IF p = "keychain"
    THEN LET r == MacOSKeychain_store_credentials(kc, domain, username,
                                                  password, e)
         IN  [ok |-> r.ok, kc |-> r.kc, mem |-> mem, hung |-> r.hung]
    ELSE IF p = "memory"
    THEN [ok |-> TRUE, kc |-> kc,
          mem |-> Memory_store_credentials(mem, domain, username, password),
          hung |-> FALSE]
    ELSE [ok |-> Interactive_store_credentials, kc |-> kc, mem |-> mem,
          hung |-> FALSE]

\* a slice that leaves out the prompt only
SecureProviders_withCache(provs) ==
    IF Len(provs) <= 1 THEN <<>> ELSE SubSeq(provs, 1, Len(provs) - 1)

\* self.providers[:-2]
SecureProviders(provs) ==
    IF Len(provs) <= 2 THEN <<>> ELSE SubSeq(provs, 1, Len(provs) - 2)

\* the loop of CredentialManager.store_credentials from secure provider i on,
\* then the fallback to memory
RECURSIVE StoreFrom(_, _, _, _, _, _, _, _)
StoreFrom(i, secure, kc, mem, domain, username, password, e) ==
    IF i > Len(secure)
    THEN [ok |-> TRUE, kc |-> kc,
          mem |-> Memory_store_credentials(mem, domain, username, password),
          stored |-> <<"memory">>, accepted |-> "memory", hung |-> FALSE]
    ELSE LET r == ProviderStore(secure[i], kc, mem, domain, username,
                                password, e)
         IN  IF r.hung
             THEN [ok |-> FALSE, kc |-> r.kc, mem |-> r.mem,
                   stored |-> <<secure[i]>>, accepted |-> "none",
                   hung |-> TRUE]
             ELSE IF r.ok
             THEN [ok |-> TRUE, kc |-> r.kc,
                   mem |-> Memory_store_credentials(r.mem, domain, username,
                                                    password),
                   stored |-> <<secure[i], "memory">>,
                   accepted |-> secure[i], hung |-> FALSE]
             ELSE LET rest == StoreFrom(i + 1, secure, r.kc, r.mem, domain,
                                        username, password, e)
                  IN  [rest EXCEPT !.stored = <<secure[i]>> \o @]

\* a store_credentials that returns false, without the fallback to memory,
\* when no secure provider accepted
CredentialManager_store_credentials_nofallback(provs, kc, mem, domain, u, p, e) ==
    LET r == StoreFrom(1, SecureProviders(provs), kc, mem, domain, u, p, e)
    IN  IF r.accepted = "memory"
        THEN [r EXCEPT !.ok = FALSE, !.mem = mem, !.accepted = "none",
                       !.stored = SubSeq(@, 1, Len(@) - 1)]
        ELSE r

\* CredentialManager.store_credentials
CredentialManager_store_credentials(provs, kc, mem, domain, u, p, e) ==
    StoreFrom(1, SecureProviders(provs), kc, mem, domain, u, p, e)

\* provider.test_credentials_available(domain), by variant
ProviderProbe(p, kc, mem, domain, e) ==
    IF p = "keychain"
    THEN [avail |-> MacOSKeychain_test_credentials_available(kc, domain, e),
          exc |-> "none"]
    ELSE IF p = "memory"
    THEN [avail |-> Memory_test_credentials_available(mem, domain),
          exc |-> "none"]
    ELSE [avail |-> Interactive_test_credentials_available, exc |-> "none"]

\* the loop of CredentialManager.test_credentials_available from provider i on
RECURSIVE ProbeFrom(_, _, _, _, _, _)
ProbeFrom(i, provs, kc, mem, domain, e) ==
    IF i > Len(provs) THEN FALSE
    ELSE LET r == ProviderProbe(provs[i], kc, mem, domain, e)
         IN  IF r.exc = "none" /\ r.avail THEN TRUE
             ELSE ProbeFrom(i + 1, provs, kc, mem, domain, e)

\* a test_credentials_available that answers with the first provider's probe
CredentialManager_test_credentials_available_first(provs, kc, mem, d, e) ==
    ProviderProbe(provs[1], kc, mem, d, e).avail

\* CredentialManager.test_credentials_available
CredentialManager_test_credentials_available(provs, kc, mem, d, e) ==
    ProbeFrom(1, provs, kc, mem, d, e)

\* authenticate_domain: "password = None" after store_credentials
ClearedAfterStore(password) == None

\* CredentialManager.authenticate_domain: neither prompt is guarded, so
\* what input() and getpass() raise leaves the method
CredentialManager_authenticate_domain(provs, kc, mem, domain, e) ==
    LET quit(x, ps) == [ok |-> FALSE, exc |-> x, kc |-> kc, mem |-> mem,
                        prompts |-> ps, stored |-> <<>>,
                        accepted |-> "none", arg |-> None,
                        password |-> None, hung |-> FALSE]
        raised(k) == IF k = "EOF" THEN "EOFError"
                     ELSE IF k = "INT" THEN "KeyboardInterrupt" ELSE "OSError"
    IN  IF e.uin.kind # "text"
        THEN quit(raised(e.uin.kind), <<"username">>)
        ELSE LET username == Strip(e.uin.text)
             IN  IF username = <<>> THEN quit("none", <<"username">>)
                 ELSE IF e.pin.kind # "text"
                 THEN quit(raised(e.pin.kind), <<"username", "secret">>)
                 ELSE IF e.pin.text = <<>>
                 THEN quit("none", <<"username", "secret">>)
                 ELSE LET r == CredentialManager_store_credentials(
                                   provs, kc, mem, domain, username,
                                   e.pin.text, e)
                      IN  [ok |-> r.ok, exc |-> "none", kc |-> r.kc,
                           mem |-> r.mem,
                           prompts |-> <<"username", "secret">>,
                           stored |-> r.stored, accepted |-> r.accepted,
                           arg |-> <<username, e.pin.text>>,
                           password |-> IF r.hung THEN e.pin.text
                                        ELSE ClearedAfterStore(e.pin.text),
                           hung |-> r.hung]

-----------------------------------------------------------------------------
(* The process environment *)

UpperChar(c) ==
    CASE c = "." -> "_"
      [] c = "c" -> "C"
      [] c = "e" -> "E"
      [] c = "h" -> "H"
      [] c = "w" -> "W"
      [] OTHER -> c

\* the variable name of a domain: upper-cased, '.' replaced with '_'
EnvName(prefix, domain) ==
    <<prefix>> \o [i \in 1..Len(domain) |-> UpperChar(domain[i])]

\* the credential the environment variables of a domain hold, both non-empty
EnvironmentLookup(env, domain) ==
    LET un == EnvName("SSH_USERNAME_", domain)
        pn == EnvName("SSH_PASSWORD_", domain)
    IN  IF un \in DOMAIN env /\ pn \in DOMAIN env
           /\ env[un] # <<>> /\ env[pn] # <<>>
        THEN <<env[un], env[pn]>>
        ELSE None

EmptyDict == [k \in {} |-> None]

\* os.environ of the session: the two variables of "e.c" are set, none of "h"
os_environ ==
    [n \in {EnvName("SSH_USERNAME_", <<"e", ".", "c">>),
            EnvName("SSH_PASSWORD_", <<"e", ".", "c">>)} |->
        IF n[1] = "SSH_USERNAME_" THEN <<"n">> ELSE <<"s">>]

\* the keychains a session starts with: empty, or an entry of "e.c" left
\* by an earlier session
InitKeychains ==
    {{}, {[svc |-> Service(<<"e", ".", "c">>), acct |-> <<"u">>,
           pw |-> <<"p">>]}}

-----------------------------------------------------------------------------
(* State *)

Blank ==
    [op |-> "init", hostname |-> <<>>, domain |-> <<>>, arg |-> None,
     cred |-> None, ok |-> FALSE, exc |-> "none", source |-> "none",
     resolved |-> <<>>, faults |-> <<>>, stored |-> <<>>,
     accepted |-> "none",
     prompts |-> <<>>, uin |-> NoInput, pin |-> NoInput,
     probes |-> <<>>, outcome |-> "none",
     connect |-> None, password |-> None, hung |-> FALSE]

\* module import: credential_manager = CredentialManager()
Init ==
    /\ darwin \in BOOLEAN
    /\ providers = ManagerProviders(darwin)
    /\ keychain \in (IF darwin THEN InitKeychains ELSE {{}})
    /\ memory = EmptyDict
    /\ last = Blank
    /\ nops = 0

\* the runs of the two lookups of the keychain a resolution can see
FindScripts ==
    {[find1 |-> "ok", find2 |-> o] : o \in Outcomes}
        \cup {[find1 |-> "fail", find2 |-> "ok"],
              [find1 |-> "raise", find2 |-> "ok"]}

\* the runs of the delete and the add a store can see
StoreScripts ==
    {[del |-> d, add |-> a] :
        d \in {"ok", "fail"}, a \in Outcomes \cup {"stall"}}
        \cup {[del |-> "raise", add |-> "ok"], [del |-> "stall", add |-> "ok"]}

\* the dialogues with the operator: the secret is asked for only after a
\* username that is not empty
PromptScripts ==
    {[uin |-> u, pin |-> s] :
        u \in {x \in UsernameInputs : x.kind = "text" /\ Strip(x.text) # <<>>},
        s \in SecretInputs}
        \cup {[uin |-> u, pin |-> Text(<<>>)] :
                 u \in {x \in UsernameInputs :
                           x.kind # "text" \/ Strip(x.text) = <<>>}}

\* the item the keychain search finds first among those of the domain
Picks(kc, domain) ==
    IF KeychainFind(kc, Service(domain)) = {} THEN {NoItem}
    ELSE KeychainFind(kc, Service(domain))

Env(f, pick, pr, st) ==
    [find1 |-> f.find1, find2 |-> f.find2, pick |-> pick,
     uin |-> pr.uin, pin |-> pr.pin, del |-> st.del, add |-> st.add]

NoFind == [find1 |-> "fail", find2 |-> "ok"]
NoPrompt == [uin |-> EndOfInput, pin |-> Text(<<>>)]
NoStore == [del |-> "raise", add |-> "ok"]

\* the runs of the two lookups in which a child never exits
StallFinds ==
    {[find1 |-> "stall", find2 |-> "ok"], [find1 |-> "ok", find2 |-> "stall"]}

\* no subprocess runs where the keychain provider is not in the sequence;
\* the resolution of a tool sees both lookups succeed, the second one raise,
\* or the first one fail
Finds(isDarwin) ==
    IF isDarwin
    THEN {[find1 |-> "ok", find2 |-> "ok"], [find1 |-> "ok", find2 |-> "raise"],
          NoFind}
    ELSE {NoFind}
ManagerFinds(isDarwin) ==
    IF isDarwin THEN FindScripts \cup StallFinds ELSE {NoFind}
Stores(isDarwin) == IF isDarwin THEN StoreScripts ELSE {NoStore}

\* the runs of the lookups the probe of a tool can see: both succeed, or
\* the first one fails
ProbeFinds(isDarwin) ==
    IF isDarwin THEN {[find1 |-> "ok", find2 |-> "ok"], NoFind} ELSE {NoFind}

\* the dialogues that give a username and a secret that are not empty
Accepted(pr) ==
    /\ pr.uin.kind = "text" /\ Strip(pr.uin.text) # <<>>
    /\ pr.pin.kind = "text" /\ pr.pin.text # <<>>

\* the operator is consulted only by a resolution that reaches the prompt
Prompts(provs, kc, mem, domain, f, pick) ==
    IF "interactive" \in Range(ResolveFrom(1, provs, kc, mem, domain,
                                  Env(f, pick, NoPrompt, NoStore)).resolved)
    THEN PromptScripts
    ELSE {NoPrompt}

\* what each provider of the sequence answers to a probe
Probes(provs, kc, mem, domain, e) ==
    [i \in 1..Len(provs) |->
        LET r == ProviderProbe(provs[i], kc, mem, domain, e)
        IN  r.exc = "none" /\ r.avail]

-----------------------------------------------------------------------------
(* Operations of the manager *)

\* credential_manager.get_credentials(domain)
GetCredentials(domain) ==
    /\ nops < MaxOps /\ ~last.hung
    /\ \E f \in ManagerFinds(darwin), pick \in Picks(keychain, domain) :
       \E pr \in Prompts(providers, keychain, memory, domain, f, pick) :
          LET r == CredentialManager_get_credentials(
                       providers, keychain, memory, domain,
                       Env(f, pick, pr, NoStore))
          IN  /\ memory' = r.mem
              /\ keychain' = r.kc
              /\ last' = [Blank EXCEPT !.op = "get_credentials",
                                       !.domain = domain,
                                       !.cred = r.cred,
                                       !.ok = (r.cred # None),
                                       !.exc = r.exc,
                                       !.source = r.source,
                                       !.resolved = r.resolved,
                                       !.faults = r.faults,
                                       !.prompts = r.prompts,
                                       !.uin = Shown(r.prompts, "username",
                                                     pr.uin),
                                       !.pin = Shown(r.prompts, "secret",
                                                     pr.pin)]
    /\ nops' = nops + 1
    /\ UNCHANGED <<darwin, providers>>

\* credential_manager.store_credentials(domain, username, password)
StoreCredentials(domain, username, password) ==
    /\ nops < MaxOps /\ ~last.hung
    /\ \E st \in Stores(darwin), pick \in Picks(keychain, domain) :
          LET r == CredentialManager_store_credentials(
                       providers, keychain, memory, domain, username,
                       password, Env(NoFind, pick, NoPrompt, st))
          IN  /\ keychain' = r.kc
              /\ memory' = r.mem
              /\ last' = [Blank EXCEPT !.op = "store_credentials",
                                       !.domain = domain,
                                       !.arg = <<username, password>>,
                                       !.ok = r.ok,
                                       !.stored = r.stored,
                                       !.accepted = r.accepted,
                                       !.hung = r.hung]
    /\ nops' = nops + 1
    /\ UNCHANGED <<darwin, providers>>

\* credential_manager.test_credentials_available(domain)
TestCredentialsAvailable(domain) ==
    /\ nops < MaxOps /\ ~last.hung
    /\ \E f \in ManagerFinds(darwin), pick \in Picks(keychain, domain) :
          LET e == Env(f, pick, NoPrompt, NoStore)
          IN  last' = [Blank EXCEPT
                          !.op = "test_credentials_available",
                          !.domain = domain,
                          !.ok = CredentialManager_test_credentials_available(
                                     providers, keychain, memory, domain, e),
                          !.probes = Probes(providers, keychain, memory,
                                            domain, e)]
    /\ nops' = nops + 1
    /\ UNCHANGED <<darwin, providers, keychain, memory>>

\* credential_manager.authenticate_domain(domain)
AuthenticateDomain(domain) ==
    /\ nops < MaxOps /\ ~last.hung
    /\ \E pr \in PromptScripts, pick \in Picks(keychain, domain) :
       \E st \in (IF Accepted(pr) THEN Stores(darwin) ELSE {NoStore}) :
          LET r == CredentialManager_authenticate_domain(
                       providers, keychain, memory, domain,
                       Env(NoFind, pick, pr, st))
          IN  /\ keychain' = r.kc
              /\ memory' = r.mem
              /\ last' = [Blank EXCEPT !.op = "authenticate_domain",
                                       !.domain = domain,
                                       !.arg = r.arg,
                                       !.ok = r.ok,
                                       !.exc = r.exc,
                                       !.stored = r.stored,
                                       !.accepted = r.accepted,
                                       !.prompts = r.prompts,
                                       !.uin = Shown(r.prompts, "username",
                                                     pr.uin),
                                       !.pin = Shown(r.prompts, "secret",
                                                     pr.pin),
                                       !.password = r.password,
                                       !.hung = r.hung]
    /\ nops' = nops + 1
    /\ UNCHANGED <<darwin, providers>>

Next ==
    \/ \E d \in Domains : GetCredentials(d)
    \/ \E d \in Domains, u \in Users, p \in Secrets : StoreCredentials(d, u, p)
    \/ \E d \in Domains : TestCredentialsAvailable(d)
    \/ \E d \in Domains : AuthenticateDomain(d)

Spec == Init /\ [][Next]_vars

-----------------------------------------------------------------------------
(* Tools of the server *)

\* what ssh.connect and the command after it do
ConnectOutcomes == {"ok", "raise"}

\* an except clause that forgets "password = None"
PasswordAfterSsh_leak(c, password) == IF c = "ok" THEN None ELSE password

\* the local password when the tool returns: "password = None" before the
\* return of the result, and again in the except clause
PasswordAfterSsh(c, password) == IF c = "ok" THEN None ELSE None

\* the error results that carry the domain
ErrorNamesDomain(outcome) == outcome \in {"no_credentials", "failed_retrieve"}

\* execute_ssh and execute_sudo: the credential part of the two tools is
\* the same code
ExecuteTool(op, hostname) ==
    /\ nops < MaxToolOps /\ ~last.hung
    /\ LET domain == get_domain_from_hostname(hostname)
           base == [Blank EXCEPT !.op = op, !.hostname = hostname,
                                 !.domain = domain]
       IN  \E tf \in ProbeFinds(darwin), pick \in Picks(keychain, domain) :
              LET te == Env(tf, pick, NoPrompt, NoStore)
                  avail == CredentialManager_test_credentials_available(
                               providers, keychain, memory, domain, te)
                  probes == Probes(providers, keychain, memory, domain, te)
              IN  IF ~avail
                  THEN /\ memory' = memory
                       /\ last' = [base EXCEPT !.outcome = "no_credentials",
                                               !.probes = probes]
                  ELSE \E f \in Finds(darwin) :
                       \E pr \in Prompts(providers, keychain, memory, domain,
                                         f, pick) :
                          LET r == CredentialManager_get_credentials(
                                       providers, keychain, memory, domain,
                                       Env(f, pick, pr, NoStore))
                              got == [base EXCEPT !.probes = probes,
                                                  !.cred = r.cred,
                                                  !.source = r.source,
                                                  !.resolved = r.resolved,
                                                  !.faults = r.faults,
                                                  !.prompts = r.prompts]
                          IN  /\ memory' = r.mem
                              /\ IF r.exc # "none"
                                 THEN last' =
                                        [got EXCEPT
                                           !.outcome = "ssh_failed",
                                           !.exc = IF IsException(r.exc)
                                                   THEN "none" ELSE r.exc]
                                 ELSE IF r.cred = None
                                 THEN last' = [got EXCEPT
                                                 !.outcome = "failed_retrieve"]
                                 ELSE \E c \in ConnectOutcomes :
                                        last' =
                                          [got EXCEPT
                                             !.ok = (c = "ok"),
                                             !.outcome = IF c = "ok"
                                                         THEN "status"
                                                         ELSE "ssh_failed",
                                             !.connect = r.cred,
                                             !.password =
                                                PasswordAfterSsh(c, r.cred[2])]
    /\ nops' = nops + 1
    /\ UNCHANGED <<darwin, providers, keychain>>

\* tool execute_ssh(hostname, command)
ExecuteSsh(hostname) == ExecuteTool("execute_ssh", hostname)

\* tool execute_sudo(hostname, command)
ExecuteSudo(hostname) == ExecuteTool("execute_sudo", hostname)

\* tool authenticate_domain(domain): the name goes to the manager as given
AuthenticateDomainTool(name) ==
    /\ nops < MaxToolOps /\ ~last.hung
    /\ \E pr \in PromptScripts, pick \in Picks(keychain, name) :
       \E st \in (IF Accepted(pr) THEN Stores(darwin) ELSE {NoStore}) :
          LET r == CredentialManager_authenticate_domain(
                       providers, keychain, memory, name,
                       Env(NoFind, pick, pr, st))
          IN  /\ keychain' = r.kc
              /\ memory' = r.mem
              /\ last' = [Blank EXCEPT
                            !.op = "authenticate_domain_tool",
                            !.hostname = name,
                            !.domain = name,
                            !.arg = r.arg,
                            !.ok = r.ok,
                            !.exc = IF IsException(r.exc) THEN "none"
                                    ELSE r.exc,
                            !.outcome = IF r.ok THEN "success"
                                        ELSE IF IsException(r.exc)
                                        THEN "authentication_failed"
                                        ELSE "failed_to_authenticate",
                            !.stored = r.stored,
                            !.accepted = r.accepted,
                            !.prompts = r.prompts,
                            !.password = r.password,
                            !.hung = r.hung]
    /\ nops' = nops + 1
    /\ UNCHANGED <<darwin, providers>>

\* execute_ssh and execute_sudo of the legacy entry point, on the legacy
\* functions of the credentials module: the result of
\* get_credentials_from_keychain is unpacked inside the try without a test
LegacyExecuteTool(op, hostname) ==
    /\ nops < MaxToolOps /\ ~last.hung
    /\ LET domain == get_domain_from_hostname(hostname)
           base == [Blank EXCEPT !.op = op, !.hostname = hostname,
                                 !.domain = domain]
       IN  \E tf \in ProbeFinds(darwin), pick \in Picks(keychain, domain) :
              LET te == Env(tf, pick, NoPrompt, NoStore)
                  avail == CredentialManager_test_credentials_available(
                               providers, keychain, memory, domain, te)
                  probes == Probes(providers, keychain, memory, domain, te)
              IN  IF ~avail
                  THEN /\ memory' = memory
                       /\ last' = [base EXCEPT !.outcome = "no_credentials",
                                               !.probes = probes]
                  ELSE \E f \in Finds(darwin) :
                       \E pr \in Prompts(providers, keychain, memory, domain,
                                         f, pick) :
                          LET r == CredentialManager_get_credentials(
                                       providers, keychain, memory, domain,
                                       Env(f, pick, pr, NoStore))
                              got == [base EXCEPT !.probes = probes,
                                                  !.cred = r.cred,
                                                  !.source = r.source,
                                                  !.resolved = r.resolved,
                                                  !.faults = r.faults,
                                                  !.prompts = r.prompts]
                          IN  /\ memory' = r.mem
                              /\ IF r.exc # "none" /\ ~IsException(r.exc)
                                 THEN last' = [got EXCEPT
                                                 !.outcome = "ssh_failed",
                                                 !.exc = r.exc]
                                 ELSE IF r.exc # "none" \/ r.cred = None
                                 THEN last' = [got EXCEPT
                                                 !.outcome = "ssh_failed"]
                                 ELSE \E c \in ConnectOutcomes :
                                        last' =
                                          [got EXCEPT
                                             !.ok = (c = "ok"),
                                             !.outcome = IF c = "ok"
                                                         THEN "status"
                                                         ELSE "ssh_failed",
                                             !.connect = r.cred,
                                             !.password =
                                                PasswordAfterSsh(c, r.cred[2])]
    /\ nops' = nops + 1
    /\ UNCHANGED <<darwin, providers, keychain>>

\* legacy tool execute_ssh(hostname, command)
LegacyExecuteSsh(hostname) == LegacyExecuteTool("legacy_execute_ssh", hostname)

\* legacy tool execute_sudo(hostname, command)
LegacyExecuteSudo(hostname) ==
    LegacyExecuteTool("legacy_execute_sudo", hostname)

NextLegacy ==
    \/ \E h \in Hostnames : LegacyExecuteSsh(h)
    \/ \E h \in Hostnames : LegacyExecuteSudo(h)

SpecLegacy == Init /\ [][NextLegacy]_vars

NextTools ==
    \/ \E h \in Hostnames : ExecuteSsh(h)
    \/ \E h \in Hostnames : ExecuteSudo(h)
    \/ \E h \in Hostnames : AuthenticateDomainTool(h)

SpecTools == Init /\ [][NextTools]_vars

-----------------------------------------------------------------------------
(* The domain resolver on its own *)

Alphabet == {"a", "b", "."}

RECURSIVE StringsUpTo(_)
StringsUpTo(n) ==
    IF n = 0 THEN {<<>>}
    ELSE LET shorter == StringsUpTo(n - 1)
         IN  shorter \cup {Append(s, c) : s \in shorter, c \in Alphabet}

\* credential_manager.get_domain_from_hostname(hostname)
ResolveDomain(hostname) ==
    /\ last' = [Blank EXCEPT !.op = "get_domain_from_hostname",
                             !.hostname = hostname,
                             !.domain = get_domain_from_hostname(hostname)]
    /\ UNCHANGED <<darwin, providers, keychain, memory, nops>>

NextDomain == \E h \in StringsUpTo(MaxHostLen) : ResolveDomain(h)

SpecDomain == Init /\ [][NextDomain]_vars

-----------------------------------------------------------------------------
(* Properties *)

IsGet(l) == l.op = "get_credentials"

\* C1: after a get_credentials(d) that resolved from the keychain, the next
\* get_credentials(d) of the session returns the same pair and does not
\* ask the keychain again.
C1_SecondGetServedFromCache ==
    [][(/\ IsGet(last) /\ last.source = "keychain"
        /\ nops' # nops
        /\ IsGet(last') /\ last'.domain = last.domain)
       => (/\ last'.cred = last.cred
           /\ "keychain" \notin Range(last'.resolved))]_vars

\* C2: after a store_credentials(d, u, p) that the keychain accepted, the
\* next get_credentials(d) of the session returns (u, p) and does not ask
\* the keychain.
C2_StoredServedFromCache ==
    [][(/\ last.op = "store_credentials" /\ last.accepted = "keychain"
        /\ nops' # nops
        /\ IsGet(last') /\ last'.domain = last.domain)
       => (/\ last'.cred = last.arg
           /\ "keychain" \notin Range(last'.resolved))]_vars

\* C3: a store_credentials(d, u, p) that no durable provider accepted
\* returns true, and the next get_credentials(d) returns exactly (u, p).
C3_FallbackStoreRetrievable ==
    [][(/\ last.op = "store_credentials" /\ last.accepted = "memory"
        /\ nops' # nops
        /\ IsGet(last') /\ last'.domain = last.domain)
       => (last.ok /\ last'.cred = last.arg)]_vars

\* C4: when get_credentials(d) returns a pair found by the keychain or the
\* prompt, the session cache asked directly for d holds that pair.
C4_WriteBack ==
    (IsGet(last) /\ last.cred # None /\ last.source # "memory")
        => Memory_get_credentials(memory, last.domain) = last.cred

C4_Witness ==
    IsGet(last) /\ last.cred # None /\ last.source = "interactive"

\* C5: a provider whose resolve raises does not abort get_credentials: no
\* exception leaves the call, every provider after the faulty one is still
\* consulted up to the first one with a result, and the call returns that
\* result, or absent when there is none.
C5_ErrorContainment ==
    (IsGet(last) /\ last.faults # <<>>)
        => /\ last.exc = "none"
           /\ last.resolved = SubSeq(providers, 1, Len(last.resolved))
           /\ IF last.cred = None
              THEN last.resolved = providers /\ last.source = "none"
              ELSE /\ last.source = last.resolved[Len(last.resolved)]
                   /\ last.source \notin Range(last.faults)

C5_Witness ==
    IsGet(last) /\ last.faults = <<"interactive">> /\ last.cred = None

\* C6: no exception leaves get_credentials, store_credentials,
\* test_credentials_available or authenticate_domain of the manager.
C6_NoExceptionEscapes ==
    last.op \in {"get_credentials", "store_credentials",
                 "test_credentials_available", "authenticate_domain"}
        => last.exc = "none"

\* the keys get_domain_from_hostname gives for the names of the session
ResolvedKeys == {get_domain_from_hostname(h) : h \in Hostnames}

\* C7: every key of the session cache and of the keychain is a value of
\* get_domain_from_hostname, and the authenticate_domain tool stores under
\* the key execute_ssh and execute_sudo look up for the same name.
C7_SingleKey ==
    /\ DOMAIN memory \subseteq ResolvedKeys
    /\ \A it \in keychain : \E k \in ResolvedKeys : it.svc = Service(k)
    /\ (last.op = "authenticate_domain_tool" /\ last.ok)
          => last.domain = get_domain_from_hostname(last.hostname)

\* C8: when the keychain gives nothing for d and both environment variables
\* of d are set, get_credentials(d) returns their values and does not
\* prompt.
C8_EnvironmentBeforePrompt ==
    (/\ IsGet(last)
     /\ "keychain" \in Range(last.resolved) /\ last.source # "keychain"
     /\ EnvironmentLookup(os_environ, last.domain) # None)
        => /\ last.cred = EnvironmentLookup(os_environ, last.domain)
           /\ last.prompts = <<>>

\* the text after the last but one '.', the whole text when it has fewer
\* than two
ReferenceDomain(h) ==
    LET dots == {i \in 1..Len(h) : h[i] = "."}
    IN  IF Cardinality(dots) < 2 THEN h
        ELSE LET final == CHOOSE i \in dots : \A j \in dots : j <= i
                 prev == CHOOSE i \in dots \ {final} :
                             \A j \in dots \ {final} : j <= i
             IN  SubSeq(h, prev + 1, Len(h))

\* C9: get_domain_from_hostname gives the last two labels joined with '.',
\* the hostname itself when it has fewer than two labels, and applying it
\* to its own result changes nothing.
C9_DomainFromHostname ==
    last.op = "get_domain_from_hostname"
        => /\ last.domain = ReferenceDomain(last.hostname)
           /\ get_domain_from_hostname(last.domain) = last.domain

C9_Witness ==
    /\ last.op = "get_domain_from_hostname"
    /\ Cardinality({i \in 1..Len(last.hostname) : last.hostname[i] = "."}) >= 2
    /\ last.domain # last.hostname

\* C10: test_credentials_available(d) is true exactly when some provider of
\* the sequence probes true.
C10_AvailableIffSomeProbe ==
    last.op = "test_credentials_available"
        => /\ Len(last.probes) = Len(providers)
           /\ last.ok <=> \E i \in 1..Len(last.probes) : last.probes[i]

C10_Witness ==
    /\ last.op = "test_credentials_available"
    /\ last.ok
    /\ ~last.probes[1]

\* the operator gave a username that is empty once trimmed
EmptyUsername(l) == l.uin.kind = "text" /\ Strip(l.uin.text) = <<>>

\* C11: on an empty username the prompt of get_credentials gives absent and
\* does not ask for the secret; authenticate_domain returns false, does not
\* ask for the secret and stores nothing.
C11_EmptyUsernameCancels ==
    /\ (IsGet(last) /\ EmptyUsername(last))
          => /\ last.prompts = <<"username">>
             /\ last.cred = None
    /\ (last.op = "authenticate_domain" /\ EmptyUsername(last))
          => /\ last.prompts = <<"username">>
             /\ ~last.ok /\ last.exc = "none"
             /\ last.stored = <<>> /\ last.arg = None

C11_Witness ==
    IsGet(last) /\ EmptyUsername(last) /\ last.cred = None

IsExecute(l) ==
    l.op \in {"execute_ssh", "execute_sudo",
              "legacy_execute_ssh", "legacy_execute_sudo"}

\* C12: when no provider has a credential for the domain of the hostname,
\* execute_ssh and execute_sudo return an error result that names the
\* domain, raise nothing and open no connection; a connection is only made
\* with the credential get_credentials returned.
C12_NoCredentialsResult ==
    IsExecute(last)
        => /\ (last.cred = None /\ last.faults = <<>>)
                 => /\ ErrorNamesDomain(last.outcome)
                    /\ last.exc = "none"
                    /\ last.connect = None
           /\ last.connect # None => last.connect = last.cred

\* C13: a tool that obtained a credential has cleared its local password
\* when it returns, after a successful SSH call and after a failed one, and
\* authenticate_domain has cleared its own once store_credentials has
\* returned, with true or with false.
C13_SecretScrubbed ==
    /\ (IsExecute(last) /\ last.connect # None) => last.password = None
    /\ (/\ last.op = "authenticate_domain_tool" /\ last.arg # None
        /\ ~last.hung)
          => last.password = None

C13_Witness ==
    /\ last.op = "execute_ssh" /\ last.connect # None
    /\ last.outcome = "ssh_failed"

\* C14: after the keychain accepted store(d, u, p), a resolve of d that the
\* keychain answers gives (u, p).
C14_KeychainRoundTrip ==
    [][(/\ last.op = "store_credentials" /\ last.accepted = "keychain"
        /\ nops' # nops
        /\ IsGet(last') /\ last'.domain = last.domain
        /\ last'.source = "keychain")
       => last'.cred = last.arg]_vars

\* C15: every run of the security tool is given a timeout, so that
\* get_credentials, test_credentials_available and store_credentials return
\* even when the child process never exits.
C15_BoundedWait ==
    last.op \in {"get_credentials", "test_credentials_available",
                 "store_credentials"}
        => ~last.hung

\* the session cache has an entry for the domain
Cached(mem, d) == d \in DOMAIN mem

\* C16: once a get_credentials(d) or a store_credentials(d, ..) has succeeded
\* the session cache has an entry for d, the entry stays, and a
\* get_credentials(d) made while it is there shows no prompt, whatever the
\* keychain answers.
C16_NoRepeatedPrompt ==
    [][nops' # nops =>
        \A d \in Domains :
            /\ (/\ last'.op \in {"get_credentials", "store_credentials"}
                /\ last'.domain = d /\ last'.ok)
                  => Cached(memory', d)
            /\ Cached(memory, d) => Cached(memory', d)
            /\ (Cached(memory, d) /\ IsGet(last') /\ last'.domain = d)
                  => /\ last'.prompts = <<>>
                     /\ "interactive" \notin Range(last'.resolved)
                     /\ last'.cred # None]_vars

C16_Witness ==
    /\ IsGet(last) /\ last.source = "memory"
    /\ last.resolved = <<"keychain", "memory">>
    /\ KeychainFind(keychain, Service(last.domain)) = {}

\* C17: when store_credentials(d, u, p) returns true the session cache holds
\* (u, p) for d; the stores attempted are those of the keychain, up to the
\* first that accepts, and then one store into the session cache; the prompt
\* is never asked to store.
C17_StoreMirrorsAndStops ==
    (last.op = "store_credentials" /\ last.ok)
        => /\ Cached(memory, last.domain)
           /\ memory[last.domain] = last.arg
           /\ "interactive" \notin Range(last.stored)
           /\ Len(last.stored) >= 1
           /\ last.stored[Len(last.stored)] = "memory"
           /\ \A i \in 1..(Len(last.stored) - 1) : last.stored[i] = "keychain"
           /\ last.accepted = "keychain"
                 => last.stored = <<"keychain", "memory">>

C17_Witness ==
    /\ last.op = "store_credentials" /\ last.ok
    /\ last.accepted = "keychain" /\ last.arg = <<<<"v">>, <<"q", " ">>>>

\* C18: get_credentials and test_credentials_available leave the keychain as
\* it was; what the operator typed at the prompt goes to the session cache
\* alone; the keychain changes only in store_credentials and
\* authenticate_domain.
C18_ResolutionNeverPersists ==
    [][nops' # nops =>
        /\ last'.op \in {"get_credentials", "test_credentials_available"}
              => keychain' = keychain
        /\ (IsGet(last') /\ last'.source = "interactive")
              => /\ Cached(memory', last'.domain)
                 /\ memory'[last'.domain] = last'.cred
        /\ keychain' # keychain
              => last'.op \in {"store_credentials", "authenticate_domain"}]_vars

C18_Witness ==
    /\ IsGet(last) /\ last.source = "interactive" /\ darwin
    /\ KeychainFind(keychain, Service(last.domain)) = {}

\* how many times x occurs in s
Count(x, s) == Cardinality({i \in 1..Len(s) : s[i] = x})

\* the operator ended the prompt or gave it an empty answer
Cancelled(l) ==
    \/ l.uin.kind \in {"EOF", "INT"}
    \/ EmptyUsername(l)
    \/ l.pin.kind \in {"EOF", "INT"}
    \/ l.pin.kind = "text" /\ l.pin.text = <<>>

\* C19: one get_credentials asks the prompt at most once, and when the
\* operator ends it or answers with nothing the call returns absent and
\* leaves the session cache and the keychain as they were.
C19_CancellationIsTerminal ==
    [][(nops' # nops /\ IsGet(last'))
        => /\ Count("interactive", last'.resolved) <= 1
           /\ Count("username", last'.prompts) <= 1
           /\ Count("secret", last'.prompts) <= 1
           /\ Cancelled(last')
                 => /\ last'.cred = None /\ last'.exc = "none"
                    /\ memory' = memory
                    /\ keychain' = keychain]_vars

C19_Witness ==
    /\ IsGet(last) /\ last.pin.kind = "INT"
    /\ last.prompts = <<"username", "secret">> /\ last.cred = None

\* C20: the sequence of providers is the one of construction in every
\* state: the keychain first exactly on Darwin, then the session cache, then
\* the prompt; the two last are the providers that are not durable.
C20_ProviderOrder ==
    /\ providers
         = (IF darwin THEN <<"keychain">> ELSE <<>>)
               \o <<"memory", "interactive">>
    /\ Len(providers) >= 2
    /\ SubSeq(providers, Len(providers) - 1, Len(providers))
         = <<"memory", "interactive">>
    /\ \A i \in 1..(Len(providers) - 2) : providers[i] = "keychain"

C20_Witness ==
    /\ nops = MaxOps /\ darwin /\ providers[1] = "keychain"
    /\ last.op = "store_credentials" /\ last.accepted = "keychain"

\* C21: the probe of the prompt is true and is in every sequence, so
\* test_credentials_available is true for the domain of every hostname:
\* execute_ssh and execute_sudo never give the "No credentials found"
\* result and always go on to get_credentials.
C21_AlwaysAvailable ==
    last.op \in {"execute_ssh", "execute_sudo"}
        => /\ Len(last.probes) = Len(providers)
           /\ last.probes[Len(last.probes)]
           /\ last.outcome # "no_credentials"
           /\ last.resolved # <<>>

C21_Witness ==
    /\ last.op = "execute_ssh" /\ last.probes = <<FALSE, TRUE>>
    /\ last.outcome = "failed_retrieve"

\* the operator gave a secret that is empty
EmptySecret(l) == l.pin.kind = "text" /\ l.pin.text = <<>>

\* C22: a store_credentials that returns, returns true, whatever the
\* keychain did; an authenticate_domain that returns false was given an
\* empty username or an empty secret and attempted no store, and one that
\* reached store_credentials returns true.
C22_StoreAlwaysTrue ==
    /\ (last.op = "store_credentials" /\ ~last.hung) => last.ok
    /\ (/\ last.op = "authenticate_domain" /\ ~last.hung
        /\ last.exc = "none" /\ ~last.ok)
          => /\ EmptyUsername(last) \/ EmptySecret(last)
             /\ last.stored = <<>>
    /\ (last.op = "authenticate_domain" /\ ~last.hung /\ last.arg # None)
          => last.ok

C22_Witness ==
    /\ last.op = "store_credentials" /\ last.ok
    /\ last.stored = <<"keychain", "memory">> /\ last.accepted = "memory"

====
